---- MODULE Spec2Model ----
(***************************************************************************)
(* Model of the Waifu Catcher bot (src/main.py): the document store        *)
(* (db.waifus, db.users, db.pending), the clock read by the handlers and   *)
(* the command handlers.  In Spec the commands that write, /catch and      *)
(* /claim, run one after another, each to completion, while time passes;   *)
(* SpecProfile adds /profile to them.  SpecLB and SpecInv run /leaderboard *)
(* and /inventory, which write nothing, over stores of many users and of   *)
(* large collections.  In SpecConc the handlers of a user run as tasks     *)
(* that interleave at their store operations, and in SpecFail a store      *)
(* operation may fail and end its handler.                                 *)
(***************************************************************************)
EXTENDS Integers, Sequences, FiniteSets, TLC

VARIABLES
    waifus,     \* db.waifus : sequence of catalog documents
    users,      \* db.users  : sequence of user documents, in natural order
    pending,    \* db.pending: sequence of pending-catch documents
    now,        \* int(time.time())
    cmd,        \* the command handled by the last step
    reply,      \* the message sent by the last step
    hist,       \* history: per user, the rolls since the last successful claim,
                \* whether the last of them was claimed, the time of the last roll,
                \* the numbers of successful claims and of successful rolls
    tasks       \* the handlers in progress, where handlers interleave

vars == <<waifus, users, pending, now, cmd, reply, hist, tasks>>

(***************************************************************************)
(* Bounds of the model.                                                    *)
(***************************************************************************)
StartTime == 100          \* clock value when the bot starts
Horizon == 15             \* the clock stops at StartTime + Horizon
MaxClaims == 2            \* successful claims over all users
TickSteps == {7, 8}       \* seconds that pass between two commands
USERS == {1, 2}           \* msg.from_user.id
SLOTS == {1, 2}           \* handlers that can be in progress together

(***************************************************************************)
(* Settings.                                                               *)
(***************************************************************************)
COOLDOWN_SECONDS == 15

RARITY_WEIGHTS ==
    << <<"Legendary", 2>>, <<"Epic", 8>>, <<"Rare", 20>>, <<"Common", 70>> >>

\* [r] in place of [r] * w: the weight is not applied
Repeat_once(r, w) == <<r>>

\* [r] * w
Repeat(r, w) == [i \in 1..w |-> r]

RECURSIVE build_from(_)
build_from(k) ==
    IF k > Len(RARITY_WEIGHTS) THEN <<>>
    ELSE Repeat(RARITY_WEIGHTS[k][1], RARITY_WEIGHTS[k][2]) \o build_from(k + 1)

build_rarity_choice == build_from(1)

RARITY_CHOICES == build_rarity_choice

\* random.choice(RARITY_CHOICES): the values a call can return
pick_rarity == {RARITY_CHOICES[i] : i \in DOMAIN RARITY_CHOICES}

(***************************************************************************)
(* Documents and the store operations the handlers use.  A document is a   *)
(* function from its keys to values; find_one answers None when no         *)
(* document matches.                                                       *)
(***************************************************************************)
None == <<>>
NullImg == ""             \* "img": None, a falsy image reference

\* d.get(k, default)
get(d, k, default) == IF k \in DOMAIN d THEN d[k] ELSE default

Min(S) == CHOOSE m \in S : \A n \in S : m <= n

Matches(coll, user_id) == {i \in DOMAIN coll : coll[i].user_id = user_id}

\* find_one without the filter: the first document of the collection
find_one_any(coll, user_id) ==
    IF coll = <<>> THEN None ELSE coll[1]

\* coll.find_one({"user_id": user_id})
find_one(coll, user_id) ==
    IF Matches(coll, user_id) = {} THEN None
    ELSE coll[Min(Matches(coll, user_id))]

\* update_one that inserts a new document on every upsert
update_one_insert(coll, user_id, set, onInsert, upsert) ==
    IF upsert
    THEN Append(coll, set @@ onInsert @@ [user_id |-> user_id])
    ELSE IF Matches(coll, user_id) # {}
         THEN [coll EXCEPT ![Min(Matches(coll, user_id))] = set @@ @]
         ELSE coll

\* update_one with an empty filter: the first document is the one updated
update_one_first(coll, user_id, set, onInsert, upsert) ==
    IF coll # <<>>
    THEN [coll EXCEPT ![1] = set @@ @]
    ELSE IF upsert
         THEN Append(coll, set @@ onInsert @@ [user_id |-> user_id])
         ELSE coll

\* update_one that replaces the matched document instead of setting fields
update_one_replace(coll, user_id, set, onInsert, upsert) ==
    IF Matches(coll, user_id) # {}
    THEN [coll EXCEPT ![Min(Matches(coll, user_id))] =
             set @@ [user_id |-> user_id]]
    ELSE IF upsert
         THEN Append(coll, set @@ onInsert @@ [user_id |-> user_id])
         ELSE coll

\* coll.update_one({"user_id": user_id},
\*                 {"$set": set, "$setOnInsert": onInsert}, upsert=upsert)
update_one(coll, user_id, set, onInsert, upsert) ==
    IF Matches(coll, user_id) # {}
    THEN [coll EXCEPT ![Min(Matches(coll, user_id))] = set @@ @]
    ELSE IF upsert
         THEN Append(coll, set @@ onInsert @@ [user_id |-> user_id])
         ELSE coll

\* delete_one that deletes nothing
delete_one_noop(coll, user_id) == coll

\* coll.delete_one({"user_id": user_id})
delete_one(coll, user_id) ==
    IF Matches(coll, user_id) = {} THEN coll
    ELSE LET k == Min(Matches(coll, user_id))
         IN  SubSeq(coll, 1, k - 1) \o SubSeq(coll, k + 1, Len(coll))

\* choose_random_waifu_async that answers a placeholder for an empty catalog
choose_random_waifu_placeholder ==
    IF Len(waifus) = 0
    THEN {[waifu_id |-> "w0", name |-> "Nobody", img |-> NullImg]}
    ELSE {waifus[i] : i \in DOMAIN waifus}

\* the outcomes of choose_random_waifu_async()
choose_random_waifu_async ==
    IF Len(waifus) = 0 THEN {None}
    ELSE {waifus[i] : i \in DOMAIN waifus}

(***************************************************************************)
(* The catalog a run starts with: empty (no waifus.json) or seeded.        *)
(***************************************************************************)
Catalog ==
    << [waifu_id |-> "w1", name |-> "Aria", img |-> "aria.png"],
       [waifu_id |-> "w2", name |-> "Bea",  img |-> NullImg] >>

Catalogs == {<<>>, Catalog}

NoMessage == [kind |-> "none"]

NoRolls == [rolls |-> <<>>, done |-> FALSE, at |-> 0, claims |-> 0, rolled |-> 0]

\* a slot with no handler in progress
Idle == [pc |-> "idle"]

\* the last two elements of s \o <<e>>
Last2(s, e) == IF Len(s) = 0 THEN <<e>> ELSE <<s[Len(s)], e>>

Init ==
    /\ waifus \in Catalogs
    /\ users = <<>>
    /\ pending = <<>>
    /\ now = StartTime
    /\ cmd = [op |-> "boot", user |-> 0]
    /\ reply = NoMessage
    /\ hist = [u \in USERS |-> NoRolls]
    /\ tasks = [s \in SLOTS |-> Idle]

(***************************************************************************)
(* Time passes between two commands.                                       *)
(***************************************************************************)
Tick ==
    /\ \E d \in TickSteps :
          /\ now + d <= StartTime + Horizon
          /\ now' = now + d
    /\ cmd' = [op |-> "tick", user |-> 0]
    /\ reply' = NoMessage
    /\ UNCHANGED <<waifus, users, pending, hist, tasks>>

(***************************************************************************)
(* /catch                                                                  *)
(***************************************************************************)
\* last_catch = userdoc.get("last_catch", 0) if userdoc else 0
last_catch_of(userdoc) ==
    IF userdoc # None THEN get(userdoc, "last_catch", 0) ELSE 0

\* the cooldown test, one second short
on_cooldown_short(t, last_catch) == t - last_catch < COOLDOWN_SECONDS - 1

\* if now - last_catch < COOLDOWN_SECONDS
on_cooldown(t, last_catch) == t - last_catch < COOLDOWN_SECONDS

\* the document written to db.pending by a roll
pending_doc(user_id, w, rarity, t) ==
    [user_id |-> user_id, waifu_id |-> w.waifu_id, name |-> w.name,
     img |-> get(w, "img", NullImg), rarity |-> rarity, ts |-> t]

cmd_catch(user_id) ==
    LET userdoc == find_one(users, user_id)
        last_catch == last_catch_of(userdoc)
    IN
    /\ cmd' = [op |-> "catch", user |-> user_id]
    /\ IF on_cooldown(now, last_catch)
       THEN /\ reply' = [kind |-> "wait",
                         remain |-> COOLDOWN_SECONDS - (now - last_catch)]
            /\ UNCHANGED <<waifus, users, pending, now, hist, tasks>>
       ELSE \E w \in choose_random_waifu_async :
            IF w = None
            THEN /\ reply' = [kind |-> "no_waifus"]
                 /\ UNCHANGED <<waifus, users, pending, now, hist, tasks>>
            ELSE \E rarity \in pick_rarity, photo_ok \in BOOLEAN :
                 /\ pending' = update_one(pending, user_id,
                                   pending_doc(user_id, w, rarity, now),
                                   <<>>, TRUE)
                 /\ users' = update_one(users, user_id,
                                   [last_catch |-> now], <<>>, TRUE)
                 /\ reply' = [kind |-> "appeared", name |-> w.name,
                              rarity |-> rarity,
                              photo |-> (get(w, "img", NullImg) # NullImg
                                         /\ photo_ok)]
                 /\ hist' = [hist EXCEPT ![user_id] =
                               [rolls |-> IF @.done THEN <<w.waifu_id>>
                                          ELSE Last2(@.rolls, w.waifu_id),
                                done |-> FALSE, at |-> now,
                                claims |-> @.claims,
                                rolled |-> @.rolled + 1]]
                 /\ UNCHANGED <<waifus, now, tasks>>

(***************************************************************************)
(* /claim                                                                  *)
(***************************************************************************)
\* the sum of the counts of all entries of all users
RECURSIVE SumCounts(_)
SumCounts(m) ==
    IF DOMAIN m = {} THEN 0
    ELSE LET k == CHOOSE k \in DOMAIN m : TRUE
         IN  get(m[k], "count", 0)
             + SumCounts([j \in DOMAIN m \ {k} |-> m[j]])

RECURSIVE Claimed(_)
Claimed(coll) ==
    IF coll = <<>> THEN 0
    ELSE SumCounts(get(Head(coll), "waifus_map", <<>>)) + Claimed(Tail(coll))

\* claim_entry that does not increment the count of an owned waifu
claim_entry_same(waifus_map, waifu_entry) ==
    LET wid == waifu_entry.waifu_id
    IN  IF wid \in DOMAIN waifus_map
        THEN [waifus_map EXCEPT ![wid] = [count |-> get(@, "count", 1)] @@ @]
        ELSE (wid :> [name |-> waifu_entry.name,
                      img |-> get(waifu_entry, "img", NullImg),
                      rarity |-> waifu_entry.rarity,
                      count |-> 1]) @@ waifus_map

\* lines 201-210: increment the entry if the waifu is owned, else add it
claim_entry(waifus_map, waifu_entry) ==
    LET wid == waifu_entry.waifu_id
    IN  IF wid \in DOMAIN waifus_map
        THEN [waifus_map EXCEPT ![wid] =
                 [count |-> get(@, "count", 1) + 1] @@ @]
        ELSE (wid :> [name |-> waifu_entry.name,
                      img |-> get(waifu_entry, "img", NullImg),
                      rarity |-> waifu_entry.rarity,
                      count |-> 1]) @@ waifus_map

cmd_claim(user_id) ==
    LET pend == find_one(pending, user_id)
    IN
    /\ cmd' = [op |-> "claim", user |-> user_id]
    /\ IF pend = None
       THEN /\ reply' = [kind |-> "nothing_to_claim"]
            /\ UNCHANGED <<waifus, users, pending, now, hist, tasks>>
       ELSE LET waifu_entry ==
                    [waifu_id |-> pend.waifu_id, name |-> pend.name,
                     img |-> get(pend, "img", NullImg),
                     rarity |-> pend.rarity, claimed_ts |-> now]
                users1 == update_one(users, user_id, <<>>,
                                     [user_id |-> user_id], TRUE)
                user_doc == find_one(users1, user_id)
                waifus_map == IF user_doc # None
                              THEN get(user_doc, "waifus_map", <<>>)
                              ELSE <<>>
                wid == waifu_entry.waifu_id
                new_map == claim_entry(waifus_map, waifu_entry)
            IN  /\ Claimed(users) < MaxClaims
                /\ users' = update_one(users1, user_id,
                                       [waifus_map |-> new_map], <<>>, FALSE)
                /\ pending' = delete_one(pending, user_id)
                /\ reply' = [kind |-> "claimed", name |-> new_map[wid].name,
                             rarity |-> new_map[wid].rarity,
                             count |-> new_map[wid].count]
                /\ hist' = [hist EXCEPT ![user_id].done = TRUE,
                                         ![user_id].claims = @ + 1]
                /\ UNCHANGED <<waifus, now, tasks>>

(***************************************************************************)
(* /leaderboard                                                            *)
(***************************************************************************)
SCAN_LENGTH == 100        \* cursor.to_list(length=100)
TOP_LENGTH == 10          \* [:10]

\* cursor.to_list(length): the first length documents in natural order
to_list(coll, length) ==
    SubSeq(coll, 1, IF Len(coll) < length THEN Len(coll) ELSE length)

\* total = sum(v.get("count",0) for v in wm.values())
total_of(d) == SumCounts(get(d, "waifus_map", <<>>))

\* scores: (user_id, total) of the documents whose total is > 0, in the
\* order of the scan
scores_of(docs) ==
    LET positive(d) == total_of(d) > 0
        kept == SelectSeq(docs, positive)
    IN  SubSeq([j \in DOMAIN kept |-> <<kept[j].user_id, total_of(kept[j])>>],
               1, Len(kept))

\* sorted_scores without the sort
sorted_scores_unsorted(scores) == scores

\* sorted(scores, key=lambda x: -x[1]), a stable sort: an element comes
\* behind those of greater total and those of equal total that precede it
sorted_scores(scores) ==
    LET n == Len(scores)
        rank == SubSeq([i \in 1..n |->
                          1 + Cardinality({j \in 1..n :
                                 \/ scores[j][2] > scores[i][2]
                                 \/ (scores[j][2] = scores[i][2] /\ j < i)})],
                       1, n)
        at == SubSeq([p \in 1..n |-> CHOOSE i \in 1..n : rank[i] = p], 1, n)
    IN  SubSeq([p \in 1..n |-> scores[at[p]]], 1, n)

\* the outcomes of bot.get_chat over the users: it fails for all of them,
\* for the odd ones, or for none
ChatOutcomes == {"none", "even", "all"}

\* name = member.full_name, or str(uid) when get_chat raises
name_of(uid, chat) ==
    IF chat = "all" \/ (chat = "even" /\ uid % 2 = 0)
    THEN <<"full_name", uid>>
    ELSE <<"str", uid>>

cmd_leaderboard ==
    LET docs == to_list(users, SCAN_LENGTH)
        scores == scores_of(docs)
        top == to_list(sorted_scores(scores), TOP_LENGTH)
    IN
    /\ cmd' = [op |-> "leaderboard", user |-> 0]
    /\ IF top = <<>>
       THEN reply' = [kind |-> "no_data"]
       ELSE \E chat \in ChatOutcomes :
               reply' = [kind |-> "leaderboard",
                         lines |-> [rank \in DOMAIN top |->
                                      [rank |-> rank,
                                       uid |-> top[rank][1],
                                       name |-> name_of(top[rank][1], chat),
                                       score |-> top[rank][2]]]]
    /\ UNCHANGED <<waifus, users, pending, now, hist, tasks>>

Next ==
    \/ Tick
    \/ \E user_id \in USERS : cmd_catch(user_id)
    \/ \E user_id \in USERS : cmd_claim(user_id)

Spec == Init /\ [][Next]_vars

(***************************************************************************)
(* The leaderboard over stores of up to MaxDocs user documents: document i *)
(* belongs to user i and owns the total its pattern gives it.              *)
(***************************************************************************)
MaxDocs == 102
Patterns == {"none", "mod3", "even", "up", "down", "late", "ones"}

pattern_total(p, i, n) ==
    CASE p = "none" -> 0
      [] p = "mod3" -> i % 3
      [] p = "even" -> IF i % 2 = 0 THEN i ELSE 0
      [] p = "up"   -> i
      [] p = "down" -> n - i + 1
      [] p = "late" -> IF i > SCAN_LENGTH THEN 5 ELSE 0
      [] p = "ones" -> 1

\* a user document as a catch and t claims leave it
user_doc_with(i, t) ==
    LET entry(k, c) == [name |-> Catalog[k].name, img |-> Catalog[k].img,
                        rarity |-> "Common", count |-> c]
    IN  IF t = 0 THEN [user_id |-> i, last_catch |-> StartTime]
        ELSE IF t = 1
        THEN [user_id |-> i, last_catch |-> StartTime,
              waifus_map |-> ("w1" :> entry(1, 1))]
        ELSE [user_id |-> i, last_catch |-> StartTime,
              waifus_map |-> ("w1" :> entry(1, t - 1)) @@ ("w2" :> entry(2, 1))]

\* few documents, and about as many as the scan reads
DocCounts == (0..12) \cup ((MaxDocs - 3)..MaxDocs)

LBStores ==
    {[i \in 1..n |-> user_doc_with(i, pattern_total(p, i, n))] :
        n \in DocCounts, p \in Patterns}

InitLB ==
    /\ waifus = Catalog
    /\ users \in LBStores
    /\ pending = <<>>
    /\ now = StartTime
    /\ cmd = [op |-> "boot", user |-> 0]
    /\ reply = NoMessage
    /\ hist = [u \in USERS |-> NoRolls]
    /\ tasks = [s \in SLOTS |-> Idle]

NextLB == cmd_leaderboard

SpecLB == InitLB /\ [][NextLB]_vars

TypeOK ==
    /\ now \in StartTime..(StartTime + Horizon)
    /\ \A i \in DOMAIN users : users[i].user_id \in USERS
    /\ \A i \in DOMAIN pending : pending[i].user_id \in USERS

(***************************************************************************)
(* /inventory                                                              *)
(***************************************************************************)
INVENTORY_LENGTH == 20    \* if i >= 20: break

\* the rarity labels and the default "" in the order of Python's str
RarityLabels == <<"", "Common", "Epic", "Legendary", "Rare">>

str_rank(label) == CHOOSE k \in DOMAIN RarityLabels : RarityLabels[k] = label

\* waifus_map.items(): the pairs (wid, info) in the order of insertion,
\* which is the order of the keys in keys
items(waifus_map, keys) ==
    LET owned(k) == k \in DOMAIN waifus_map
        kept == SelectSeq(keys, owned)
    IN  SubSeq([j \in DOMAIN kept |-> <<kept[j], waifus_map[kept[j]]>>],
               1, Len(kept))

\* key=lambda x: (-x[1].get("count",0), x[1].get("rarity","")): a sorts
\* before b
key_before(a, b) ==
    LET ca == get(a[2], "count", 0)
        cb == get(b[2], "count", 0)
    IN  \/ ca > cb
        \/ /\ ca = cb
           /\ str_rank(get(a[2], "rarity", "")) < str_rank(get(b[2], "rarity", ""))

\* sorted(waifus_map.items(), key=...), a stable sort: an item comes behind
\* those that sort before it and those of the same key that precede it
sorted_items(its) ==
    LET n == Len(its)
        rank == SubSeq([i \in 1..n |->
                          1 + Cardinality({j \in 1..n :
                                 \/ key_before(its[j], its[i])
                                 \/ (~key_before(its[i], its[j]) /\ j < i)})],
                       1, n)
        at == SubSeq([p \in 1..n |-> CHOOSE i \in 1..n : rank[i] = p], 1, n)
    IN  SubSeq([p \in 1..n |-> its[at[p]]], 1, n)

\* the loop with the test i > 20: one line too many
listed_21(sorted) ==
    SubSeq(sorted, 1, IF Len(sorted) < INVENTORY_LENGTH + 1
                      THEN Len(sorted) ELSE INVENTORY_LENGTH + 1)

\* the items the loop of lines 229-231 appends a line for
listed(sorted) ==
    SubSeq(sorted, 1, IF Len(sorted) < INVENTORY_LENGTH
                      THEN Len(sorted) ELSE INVENTORY_LENGTH)

\* the orders of insertion the model tries: the catalog's and its reverse
KeyOrders ==
    LET ids == SubSeq([i \in DOMAIN waifus |-> waifus[i].waifu_id],
                      1, Len(waifus))
    IN  {ids, SubSeq([i \in DOMAIN ids |-> ids[Len(ids) + 1 - i]], 1, Len(ids))}

cmd_inventory(user_id) ==
    LET user_doc == find_one(users, user_id)
        waifus_map == IF user_doc # None
                      THEN get(user_doc, "waifus_map", <<>>)
                      ELSE <<>>
    IN
    /\ cmd' = [op |-> "inventory", user |-> user_id]
    /\ IF DOMAIN waifus_map = {}
       THEN reply' = [kind |-> "empty"]
       ELSE \E keys \in KeyOrders :
               LET shown == listed(sorted_items(items(waifus_map, keys)))
               IN  reply' = [kind |-> "inventory",
                             lines |-> [i \in DOMAIN shown |->
                                          [i |-> i,
                                           name |-> shown[i][2].name,
                                           rarity |-> shown[i][2].rarity,
                                           count |-> shown[i][2].count]]]
    /\ UNCHANGED <<waifus, users, pending, now, hist, tasks>>

(***************************************************************************)
(* The inventory of user 1 over collections of up to MaxEntries entries of *)
(* a catalog of that size; user 2 has no document.                         *)
(***************************************************************************)
MaxEntries == 22
InvPatterns == {"ones", "up", "down", "mod3"}

wid_of(i) == "w" \o ToString(i)

InvCatalog ==
    [i \in 1..MaxEntries |->
        [waifu_id |-> wid_of(i), name |-> wid_of(i), img |-> NullImg]]

pattern_count(p, i, n) ==
    CASE p = "ones" -> 1
      [] p = "up"   -> i
      [] p = "down" -> n - i + 1
      [] p = "mod3" -> (i % 3) + 1

\* the document of user 1 after a catch and the claims of n waifus
inv_doc(n, p) ==
    IF n = 0 THEN [user_id |-> 1, last_catch |-> StartTime]
    ELSE [user_id |-> 1, last_catch |-> StartTime,
          waifus_map |->
             [k \in {wid_of(i) : i \in 1..n} |->
                LET i == CHOOSE i \in 1..n : wid_of(i) = k
                IN  [name |-> k, img |-> NullImg,
                     rarity |-> RARITY_WEIGHTS[(i % 4) + 1][1],
                     count |-> pattern_count(p, i, n)]]]

\* few entries, and about as many as a listing shows
EntryCounts == (0..6) \cup ((MaxEntries - 4)..MaxEntries)

InvStores ==
    {<<>>} \cup {<<inv_doc(n, p)>> : n \in EntryCounts, p \in InvPatterns}

InitInv ==
    /\ waifus = InvCatalog
    /\ users \in InvStores
    /\ pending = <<>>
    /\ now = StartTime
    /\ cmd = [op |-> "boot", user |-> 0]
    /\ reply = NoMessage
    /\ hist = [u \in USERS |-> NoRolls]
    /\ tasks = [s \in SLOTS |-> Idle]

NextInv == \E user_id \in USERS : cmd_inventory(user_id)

SpecInv == InitInv /\ [][NextInv]_vars

(***************************************************************************)
(* /profile                                                                *)
(***************************************************************************)
\* the number of entries in place of the sum of their counts
profile_total_entries(waifus_map) == Cardinality(DOMAIN waifus_map)

\* total = sum(info.get("count", 0) for info in waifus_map.values())
profile_total(waifus_map) == SumCounts(waifus_map)

\* rarity_counts: rarity -> the sum of the counts of the entries of that
\* rarity, "Unknown" for an entry without one
rarity_counts_of(waifus_map) ==
    LET label(w) == get(waifus_map[w], "rarity", "Unknown")
    IN  [r \in {label(w) : w \in DOMAIN waifus_map} |->
            SumCounts([w \in {v \in DOMAIN waifus_map : label(v) = r} |->
                          waifus_map[w]])]

cmd_profile(user_id) ==
    LET user_doc == find_one(users, user_id)
        waifus_map == IF user_doc # None
                      THEN get(user_doc, "waifus_map", <<>>)
                      ELSE <<>>
    IN
    /\ cmd' = [op |-> "profile", user |-> user_id]
    /\ reply' = [kind |-> "profile",
                 total |-> profile_total(waifus_map),
                 rarity_counts |-> rarity_counts_of(waifus_map)]
    /\ UNCHANGED <<waifus, users, pending, now, hist, tasks>>

\* the commands of Spec and /profile, one after another
NextProfile ==
    \/ Tick
    \/ \E user_id \in USERS : cmd_catch(user_id)
    \/ \E user_id \in USERS : cmd_claim(user_id)
    \/ \E user_id \in USERS : cmd_profile(user_id)

SpecProfile == Init /\ [][NextProfile]_vars

(***************************************************************************)
(* Interleaved handlers.  The dispatcher runs every update as its own      *)
(* task, and a handler gives way at each await: a task takes one step per  *)
(* store operation, and the steps of the tasks in progress interleave.     *)
(* A step that sends the reply of its handler sends it with its last store *)
(* operation.                                                              *)
(***************************************************************************)
MaxRolls == 2             \* successful rolls of a user where handlers interleave
ConcUsers == {1}          \* the users whose handlers interleave

InProgress(op, u) ==
    {s \in SLOTS : tasks[s].pc # "idle" /\ tasks[s].op = op /\ tasks[s].user = u}

\* a new task takes the first free slot
FreeSlot(s) == tasks[s].pc = "idle" /\ \A r \in SLOTS : r < s => tasks[r].pc # "idle"

At(s, op, pc) == tasks[s].pc = pc /\ tasks[s].op = op

Step(s, pc) == [op |-> tasks[s].op, user |-> tasks[s].user, slot |-> s, at |-> pc]

\* cmd_catch, line 129: the read of db.pending, whose result is not used
catch_find_pending(s, user_id) ==
    /\ FreeSlot(s)
    /\ hist[user_id].rolled + Cardinality(InProgress("catch", user_id)) < MaxRolls
    /\ tasks' = [tasks EXCEPT ![s] =
                    [pc |-> "find_user", op |-> "catch", user |-> user_id]]
    /\ cmd' = [op |-> "catch", user |-> user_id, slot |-> s, at |-> "find_pending"]
    /\ reply' = NoMessage
    /\ UNCHANGED <<waifus, users, pending, now, hist>>

\* cmd_catch, lines 134-148: the read of db.users, the cooldown check, the
\* draw from the catalog, which no handler writes, and the rarity
catch_find_user(s) ==
    LET user_id == tasks[s].user
        userdoc == find_one(users, user_id)
        last_catch == last_catch_of(userdoc)
    IN
    /\ At(s, "catch", "find_user")
    /\ cmd' = Step(s, "find_user")
    /\ IF on_cooldown(now, last_catch)
       THEN /\ reply' = [kind |-> "wait",
                         remain |-> COOLDOWN_SECONDS - (now - last_catch)]
            /\ tasks' = [tasks EXCEPT ![s] = Idle]
       ELSE \E w \in choose_random_waifu_async :
            IF w = None
            THEN /\ reply' = [kind |-> "no_waifus"]
                 /\ tasks' = [tasks EXCEPT ![s] = Idle]
            ELSE \E rarity \in pick_rarity :
                 /\ reply' = NoMessage
                 /\ tasks' = [tasks EXCEPT ![s] =
                                 [pc |-> "save_pending", op |-> "catch",
                                  user |-> user_id, w |-> w,
                                  rarity |-> rarity, now |-> now]]
    /\ UNCHANGED <<waifus, users, pending, now, hist>>

\* cmd_catch, lines 151-155: save pending
catch_save_pending(s) ==
    LET t == tasks[s]
    IN
    /\ At(s, "catch", "save_pending")
    /\ cmd' = Step(s, "save_pending")
    /\ pending' = update_one(pending, t.user,
                             pending_doc(t.user, t.w, t.rarity, t.now),
                             <<>>, TRUE)
    /\ tasks' = [tasks EXCEPT ![s].pc = "save_user"]
    /\ reply' = NoMessage
    /\ hist' = [hist EXCEPT ![t.user] =
                  [rolls |-> IF @.done THEN <<t.w.waifu_id>>
                             ELSE Last2(@.rolls, t.w.waifu_id),
                   done |-> FALSE, at |-> t.now,
                   claims |-> @.claims,
                   rolled |-> @.rolled + 1]]
    /\ UNCHANGED <<waifus, users, now>>

\* cmd_catch, lines 157-171: the user's last_catch and the reply
catch_save_user(s) ==
    LET t == tasks[s]
    IN
    /\ At(s, "catch", "save_user")
    /\ cmd' = Step(s, "save_user")
    /\ users' = update_one(users, t.user, [last_catch |-> t.now], <<>>, TRUE)
    /\ \E photo_ok \in BOOLEAN :
          reply' = [kind |-> "appeared", name |-> t.w.name,
                    rarity |-> t.rarity,
                    photo |-> (get(t.w, "img", NullImg) # NullImg /\ photo_ok)]
    /\ tasks' = [tasks EXCEPT ![s] = Idle]
    /\ UNCHANGED <<waifus, pending, now, hist>>

\* cmd_claim, lines 176-188: the read of db.pending
claim_find_pending(s, user_id) ==
    LET pend == find_one(pending, user_id)
    IN
    /\ FreeSlot(s)
    /\ cmd' = [op |-> "claim", user |-> user_id, slot |-> s, at |-> "find_pending"]
    /\ IF pend = None
       THEN /\ reply' = [kind |-> "nothing_to_claim"]
            /\ UNCHANGED tasks
       ELSE /\ hist[user_id].claims + Cardinality(InProgress("claim", user_id))
                  < MaxClaims
            /\ Claimed(users) < MaxClaims
            /\ reply' = NoMessage
            /\ tasks' = [tasks EXCEPT ![s] =
                            [pc |-> "upsert_user", op |-> "claim",
                             user |-> user_id, pend |-> pend,
                             before |-> IF find_one(users, user_id) # None
                                        THEN get(find_one(users, user_id),
                                                 "waifus_map", <<>>)
                                        ELSE <<>>]]
    /\ UNCHANGED <<waifus, users, pending, now, hist>>

\* cmd_claim, lines 190-194: the upsert of the user document
claim_upsert_user(s) ==
    LET t == tasks[s]
    IN
    /\ At(s, "claim", "upsert_user")
    /\ cmd' = Step(s, "upsert_user")
    /\ users' = update_one(users, t.user, <<>>, [user_id |-> t.user], TRUE)
    /\ tasks' = [tasks EXCEPT ![s].pc = "find_user"]
    /\ reply' = NoMessage
    /\ UNCHANGED <<waifus, pending, now, hist>>

\* cmd_claim, lines 198-210: the read of the user document and the new map
claim_find_user(s) ==
    LET t == tasks[s]
        waifu_entry == [waifu_id |-> t.pend.waifu_id, name |-> t.pend.name,
                        img |-> get(t.pend, "img", NullImg),
                        rarity |-> t.pend.rarity, claimed_ts |-> now]
        user_doc == find_one(users, t.user)
        waifus_map == IF user_doc # None
                      THEN get(user_doc, "waifus_map", <<>>)
                      ELSE <<>>
    IN
    /\ At(s, "claim", "find_user")
    /\ cmd' = Step(s, "find_user")
    /\ tasks' = [tasks EXCEPT ![s] =
                    [pc |-> "set_map", op |-> "claim", user |-> t.user,
                     pend |-> t.pend, before |-> t.before,
                     map |-> claim_entry(waifus_map, waifu_entry)]]
    /\ reply' = NoMessage
    /\ UNCHANGED <<waifus, users, pending, now, hist>>

\* cmd_claim, line 212: the write of the map
claim_set_map(s) ==
    LET t == tasks[s]
    IN
    /\ At(s, "claim", "set_map")
    /\ cmd' = Step(s, "set_map")
    /\ users' = update_one(users, t.user, [waifus_map |-> t.map], <<>>, FALSE)
    /\ tasks' = [tasks EXCEPT ![s].pc = "delete"]
    /\ reply' = NoMessage
    /\ UNCHANGED <<waifus, pending, now, hist>>

\* cmd_claim, lines 215-217: remove pending, and the reply
claim_delete(s) ==
    LET t == tasks[s]
        wid == t.pend.waifu_id
    IN
    /\ At(s, "claim", "delete")
    /\ cmd' = Step(s, "delete")
    /\ pending' = delete_one(pending, t.user)
    /\ reply' = [kind |-> "claimed", name |-> t.map[wid].name,
                 rarity |-> t.map[wid].rarity, count |-> t.map[wid].count]
    /\ tasks' = [tasks EXCEPT ![s] = Idle]
    /\ hist' = [hist EXCEPT ![t.user].done = TRUE,
                            ![t.user].claims = @ + 1]
    /\ UNCHANGED <<waifus, users, now>>

NextConc ==
    \/ Tick
    \/ \E s \in SLOTS, user_id \in ConcUsers : catch_find_pending(s, user_id)
    \/ \E s \in SLOTS : catch_find_user(s)
    \/ \E s \in SLOTS : catch_save_pending(s)
    \/ \E s \in SLOTS : catch_save_user(s)
    \/ \E s \in SLOTS, user_id \in ConcUsers : claim_find_pending(s, user_id)
    \/ \E s \in SLOTS : claim_upsert_user(s)
    \/ \E s \in SLOTS : claim_find_user(s)
    \/ \E s \in SLOTS : claim_set_map(s)
    \/ \E s \in SLOTS : claim_delete(s)

SpecConc == Init /\ [][NextConc]_vars

(***************************************************************************)
(* Store failures.  No handler catches an exception: a store operation     *)
(* that fails raises out of its await, the handler ends there, none of its *)
(* later operations run and no reply is sent.  What it wrote before stays  *)
(* written.  Handlers run one at a time here.                              *)
(***************************************************************************)
abort(s) ==
    /\ tasks[s].pc # "idle"
    /\ cmd' = Step(s, "abort")
    /\ reply' = NoMessage
    /\ tasks' = [tasks EXCEPT ![s] = Idle]
    /\ UNCHANGED <<waifus, users, pending, now, hist>>

NextFail ==
    \/ Tick
    \/ \E user_id \in ConcUsers : catch_find_pending(1, user_id)
    \/ catch_find_user(1)
    \/ catch_save_pending(1)
    \/ catch_save_user(1)
    \/ \E user_id \in ConcUsers : claim_find_pending(1, user_id)
    \/ claim_upsert_user(1)
    \/ claim_find_user(1)
    \/ claim_set_map(1)
    \/ claim_delete(1)
    \/ abort(1)

SpecFail == Init /\ [][NextFail]_vars

(***************************************************************************)
(* What the properties observe of a store state.                           *)
(***************************************************************************)
WIDS == {Catalog[i].waifu_id : i \in DOMAIN Catalog}

Idx(coll, u) == {i \in DOMAIN coll : coll[i].user_id = u}

DocsOf(coll, u) == {coll[i] : i \in Idx(coll, u)}

\* the collection of user u: waifu_id -> entry
Entries(coll, u) ==
    IF DocsOf(coll, u) = {} THEN <<>>
    ELSE LET d == CHOOSE d \in DocsOf(coll, u) : TRUE
         IN  IF "waifus_map" \in DOMAIN d THEN d.waifus_map ELSE <<>>

Count(coll, u, w) ==
    IF w \in DOMAIN Entries(coll, u) THEN Entries(coll, u)[w].count ELSE 0

\* last_roll_at of user u, 0 when it was never set
LastRollAt(coll, u) ==
    IF DocsOf(coll, u) = {} THEN 0
    ELSE LET d == CHOOSE d \in DocsOf(coll, u) : TRUE
         IN  IF "last_catch" \in DOMAIN d THEN d.last_catch ELSE 0

Last(s) == s[Len(s)]

\* the step handles command op of user u
Handles(op, u) == cmd'.op = op /\ cmd'.user = u

(***************************************************************************)
(* C1: a claim of a user who has no PendingRoll replies "nothing to claim" *)
(* and writes nothing: the user documents (collection, last_roll_at) and   *)
(* the pending documents are the same after the command as before it.      *)
(***************************************************************************)
ClaimWithoutPendingWritesNothing ==
    [][\A u \in USERS :
          (Handles("claim", u) /\ Idx(pending, u) = {})
          => /\ reply'.kind = "nothing_to_claim"
             /\ users' = users
             /\ pending' = pending]_vars

\* a rejected claim of a user while another user has a PendingRoll
ClaimWithoutPendingWitness ==
    /\ cmd.op = "claim"
    /\ reply.kind = "nothing_to_claim"
    /\ Idx(pending, cmd.user) = {}
    /\ pending # <<>>

(***************************************************************************)
(* C2: a catch issued less than COOLDOWN_SECONDS after the user's          *)
(* successful catch, while the PendingRoll of that catch is still there,   *)
(* replies with the remaining wait and changes neither last_roll_at nor    *)
(* the PendingRoll.                                                        *)
(***************************************************************************)
SecondCatchWithinCooldownWaits ==
    [][\A u \in USERS :
          (/\ Handles("catch", u)
           /\ hist[u].rolls # <<>> /\ ~hist[u].done
           /\ now - hist[u].at < COOLDOWN_SECONDS)
          => /\ reply'.kind = "wait"
             /\ reply'.remain = COOLDOWN_SECONDS - (now - hist[u].at)
             /\ LastRollAt(users', u) = hist[u].at
             /\ users' = users
             /\ pending' = pending
             /\ \E p \in DocsOf(pending', u) : p.ts = hist[u].at]_vars

\* a catch rejected one second before the cooldown ends
SecondCatchWithinCooldownWitness ==
    /\ cmd.op = "catch"
    /\ reply.kind = "wait"
    /\ reply.remain = 1
    /\ DocsOf(pending, cmd.user) # {}

(***************************************************************************)
(* C3: a user has at most one PendingRoll, and a successful catch replaces *)
(* the unconfirmed one: a claim after two successful catches credits       *)
(* exactly one entry by 1, the entry of the second roll's collectible, and *)
(* leaves the count of every other collectible as it was.                  *)
(***************************************************************************)
CatchOverwritesPendingRoll ==
    [][\A u \in USERS :
          /\ Cardinality(Idx(pending', u)) <= 1
          /\ (Handles("catch", u) /\ reply'.kind = "appeared")
             => \E p \in DocsOf(pending', u) :
                   /\ p.waifu_id = Last(hist'[u].rolls)
                   /\ p.name = reply'.name
                   /\ p.rarity = reply'.rarity
                   /\ p.ts = now
          /\ (Handles("claim", u) /\ ~hist[u].done /\ Len(hist[u].rolls) = 2)
             => /\ reply'.kind = "claimed"
                /\ \A w \in WIDS :
                      Count(users', u, w) =
                         Count(users, u, w)
                         + (IF w = hist[u].rolls[2] THEN 1 ELSE 0)]_vars

\* catch, catch, claim: the second roll is credited, the first is not
CatchOverwritesWitness ==
    /\ cmd.op = "claim"
    /\ reply.kind = "claimed"
    /\ hist[cmd.user].done
    /\ Len(hist[cmd.user].rolls) = 2
    /\ hist[cmd.user].rolls[1] # hist[cmd.user].rolls[2]
    /\ Count(users, cmd.user, hist[cmd.user].rolls[2]) = 1
    /\ Count(users, cmd.user, hist[cmd.user].rolls[1]) = 0

(***************************************************************************)
(* C4: a claim succeeds if and only if the user has had a successful       *)
(* catch since their last successful claim; a successful claim deletes the *)
(* user's PendingRoll, and a failed claim leaves every count unchanged.    *)
(***************************************************************************)
ClaimConsumesPendingRoll ==
    [][\A u \in USERS :
          Handles("claim", u)
          => /\ reply'.kind \in {"claimed", "nothing_to_claim"}
             /\ (reply'.kind = "claimed")
                <=> (hist[u].rolls # <<>> /\ ~hist[u].done)
             /\ reply'.kind = "claimed" => Idx(pending', u) = {}
             /\ reply'.kind = "nothing_to_claim" => users' = users]_vars

\* the second of two claims after one catch fails
SecondClaimWitness ==
    /\ cmd.op = "claim"
    /\ reply.kind = "nothing_to_claim"
    /\ hist[cmd.user].done
    /\ \E w \in WIDS : Count(users, cmd.user, w) = 1

(***************************************************************************)
(* C5: a successful claim raises the count of the entry of the collectible *)
(* rolled by the user's last catch by exactly 1, creating it with count 1  *)
(* when the user did not own it, and leaves the user's other entries       *)
(* unchanged.                                                              *)
(***************************************************************************)
ClaimCyclesCountByOne ==
    [][\A u \in USERS :
          (Handles("claim", u) /\ reply'.kind = "claimed")
          => LET w == Last(hist[u].rolls)
             IN  /\ Count(users', u, w) = Count(users, u, w) + 1
                 /\ reply'.count = Count(users', u, w)
                 /\ DOMAIN Entries(users', u) = DOMAIN Entries(users, u) \cup {w}
                 /\ \A v \in DOMAIN Entries(users, u) \ {w} :
                       Entries(users', u)[v] = Entries(users, u)[v]]_vars

\* the second catch+claim cycle on the same collectible
ClaimCyclesWitness ==
    /\ cmd.op = "claim"
    /\ reply.kind = "claimed"
    /\ reply.count = 2
    /\ \E w \in WIDS : Count(users, cmd.user, w) = 2

(***************************************************************************)
(* C6: a claim that confirms a PendingRoll whose collectible the user      *)
(* already owns overwrites the stored rarity, name and image with those of *)
(* the PendingRoll and increments the count by 1.                          *)
(***************************************************************************)
ClaimOverwritesOwnedEntry ==
    [][\A u \in USERS :
          (Handles("claim", u) /\ reply'.kind = "claimed")
          => \A p \in DocsOf(pending, u) :
                p.waifu_id \in DOMAIN Entries(users, u)
                => LET old == Entries(users, u)[p.waifu_id]
                       new == Entries(users', u)[p.waifu_id]
                   IN  /\ new.count = old.count + 1
                       /\ new.rarity = p.rarity
                       /\ new.name = p.name
                       /\ new.img = p.img]_vars

(***************************************************************************)
(* C7: a successful claim leaves last_roll_at unchanged, and a catch       *)
(* issued less than COOLDOWN_SECONDS after the user's last successful roll *)
(* is rejected with a wait message and writes nothing, also when the user  *)
(* has no PendingRoll because it was claimed.                              *)
(***************************************************************************)
CooldownIndependentOfPendingRoll ==
    [][\A u \in USERS :
          /\ Handles("claim", u)
             => /\ LastRollAt(users', u) = LastRollAt(users, u)
                /\ LastRollAt(users', u) = hist[u].at
          /\ (/\ Handles("catch", u)
              /\ hist[u].done
              /\ Idx(pending, u) = {}
              /\ now - hist[u].at < COOLDOWN_SECONDS)
             => /\ reply'.kind = "wait"
                /\ reply'.remain = COOLDOWN_SECONDS - (now - hist[u].at)
                /\ users' = users
                /\ pending' = pending]_vars

\* a catch rejected after the roll was claimed and its PendingRoll deleted
CooldownAfterClaimWitness ==
    /\ cmd.op = "catch"
    /\ reply.kind = "wait"
    /\ hist[cmd.user].done
    /\ Idx(pending, cmd.user) = {}
    /\ \E w \in WIDS : Count(users, cmd.user, w) = 1

(***************************************************************************)
(* C8: with an empty catalog a catch that passes the cooldown check        *)
(* replies "no waifus loaded" and writes nothing: no PendingRoll, no       *)
(* last_roll_at, so a catch that follows it is not told to wait.           *)
(***************************************************************************)
EmptyCatalogCatchWritesNothing ==
    [][\A u \in USERS :
          /\ (/\ Handles("catch", u)
              /\ waifus = <<>>
              /\ now - LastRollAt(users, u) >= COOLDOWN_SECONDS)
             => /\ reply'.kind = "no_waifus"
                /\ users' = users
                /\ pending' = pending
                /\ Idx(pending', u) = {}
                /\ LastRollAt(users', u) = 0
          /\ (/\ Handles("catch", u)
              /\ cmd = [op |-> "catch", user |-> u]
              /\ reply.kind = "no_waifus")
             => reply'.kind = "no_waifus"]_vars

\* a catch that found the catalog empty
EmptyCatalogWitness ==
    /\ cmd.op = "catch"
    /\ reply.kind = "no_waifus"
    /\ waifus = <<>>
    /\ users = <<>>
    /\ pending = <<>>

(***************************************************************************)
(* C9: a catch or claim of user a leaves the PendingRoll, last_roll_at and *)
(* collection of every other user b unchanged, and whether a command of b  *)
(* is rejected is decided by b's own documents and the clock.              *)
(***************************************************************************)
OtherUsersUntouched ==
    [][\A a \in USERS :
          /\ (Handles("catch", a) \/ Handles("claim", a))
             => \A b \in USERS \ {a} :
                   /\ DocsOf(pending', b) = DocsOf(pending, b)
                   /\ DocsOf(users', b) = DocsOf(users, b)
                   /\ LastRollAt(users', b) = LastRollAt(users, b)
                   /\ Entries(users', b) = Entries(users, b)
          /\ Handles("claim", a)
             => (reply'.kind = "nothing_to_claim" <=> Idx(pending, a) = {})
          /\ Handles("catch", a)
             => (reply'.kind = "wait"
                 <=> now - LastRollAt(users, a) < COOLDOWN_SECONDS)]_vars

\* a successful command of one user while the other user has a PendingRoll
\* and a collection
OtherUsersWitness ==
    /\ cmd.op \in {"catch", "claim"}
    /\ reply.kind \in {"appeared", "claimed"}
    /\ \E b \in USERS \ {cmd.user} :
          /\ Idx(pending, b) # {}
          /\ Entries(users, b) # <<>>

(***************************************************************************)
(* C10: the leaderboard lists no user whose total is 0, lists at most 10   *)
(* users, each with the total of its document, in order of non-increasing  *)
(* total, and it replies "no data yet" exactly when no scanned user has a  *)
(* total greater than 0.                                                   *)
(***************************************************************************)
\* the documents the scan reaches
Scanned == {i \in DOMAIN users : i <= 100}

\* the total owned count of a user document
OwnedTotal(d) ==
    IF "waifus_map" \in DOMAIN d
    THEN (IF "w1" \in DOMAIN d.waifus_map THEN d.waifus_map["w1"].count ELSE 0)
         + (IF "w2" \in DOMAIN d.waifus_map THEN d.waifus_map["w2"].count ELSE 0)
    ELSE 0

LeaderboardRanksOwners ==
    cmd.op = "leaderboard"
    => /\ reply.kind \in {"no_data", "leaderboard"}
       /\ (reply.kind = "no_data")
          <=> (\A i \in Scanned : OwnedTotal(users[i]) = 0)
       /\ reply.kind = "leaderboard"
          => LET lines == reply.lines
             IN  /\ Len(lines) >= 1
                 /\ Len(lines) <= 10
                 /\ \A k \in DOMAIN lines :
                       /\ lines[k].rank = k
                       /\ lines[k].score > 0
                       /\ \E i \in Scanned :
                             /\ users[i].user_id = lines[k].uid
                             /\ OwnedTotal(users[i]) = lines[k].score
                 /\ \A k \in DOMAIN lines, l \in DOMAIN lines :
                       k < l => /\ lines[k].score >= lines[l].score
                                /\ lines[k].uid # lines[l].uid

\* a leaderboard of 10 lines cut from more than 10 owners, with users that
\* own nothing and users beyond the scan
LeaderboardWitness ==
    /\ cmd.op = "leaderboard"
    /\ reply.kind = "leaderboard"
    /\ Len(reply.lines) = 10
    /\ Len(users) > 100
    /\ Cardinality({i \in Scanned : OwnedTotal(users[i]) > 0}) > 10
    /\ \E i \in Scanned : OwnedTotal(users[i]) = 0
    /\ reply.lines[1].score > reply.lines[10].score

(***************************************************************************)
(* C13: the table the rarity is drawn from has 100 slots in which each     *)
(* tier appears exactly as many times as its weight (Legendary 2, Epic 8,  *)
(* Rare 20, Common 70), a call of pick_rarity can return every slot, and   *)
(* the rarity of every roll is one of the four tiers, whichever            *)
(* collectible was drawn.                                                  *)
(***************************************************************************)
Slots(tier) == {i \in DOMAIN RARITY_CHOICES : RARITY_CHOICES[i] = tier}

RarityTableFollowsWeights ==
    /\ Len(RARITY_CHOICES) = 100
    /\ Cardinality(Slots("Legendary")) = 2
    /\ Cardinality(Slots("Epic")) = 8
    /\ Cardinality(Slots("Rare")) = 20
    /\ Cardinality(Slots("Common")) = 70
    /\ pick_rarity = {"Legendary", "Epic", "Rare", "Common"}
    /\ \A i \in DOMAIN pending :
          pending[i].rarity \in {"Legendary", "Epic", "Rare", "Common"}
    /\ reply.kind = "appeared"
       => reply.rarity \in {"Legendary", "Epic", "Rare", "Common"}

\* the same collectible rolled at the rarest and at the commonest tier
RarityTableWitness ==
    /\ Len(pending) = 2
    /\ pending[1].waifu_id = pending[2].waifu_id
    /\ pending[1].rarity = "Legendary"
    /\ pending[2].rarity = "Common"
    /\ reply.kind = "appeared"

(***************************************************************************)
(* C18: the reply of a successful claim names the roll that was claimed:   *)
(* its name and rarity are those of the PendingRoll being confirmed, and   *)
(* its count is the count stored for the entry after the claim.            *)
(***************************************************************************)
ClaimReplyConfirmsRoll ==
    [][\A u \in USERS :
          (Handles("claim", u) /\ reply'.kind = "claimed")
          => \A p \in DocsOf(pending, u) :
                /\ reply'.name = p.name
                /\ reply'.rarity = p.rarity
                /\ reply'.count = Count(users', u, p.waifu_id)]_vars

(***************************************************************************)
(* C11: the inventory shows at most 20 entries of the user, ordered by     *)
(* count descending and then by rarity label ascending as a string, and it *)
(* replies "collection is empty" if and only if the user's collection is   *)
(* empty, also for a user whose document a catch created and who never     *)
(* claimed.                                                                *)
(***************************************************************************)
\* the place of a rarity label among the labels sorted as strings
LabelPlace(r) ==
    CASE r = "Common" -> 1 [] r = "Epic" -> 2 [] r = "Legendary" -> 3
      [] r = "Rare" -> 4

InventoryListsTwenty ==
    cmd.op = "inventory"
    => LET owned == Entries(users, cmd.user)
       IN  /\ reply.kind \in {"empty", "inventory"}
           /\ (reply.kind = "empty") <=> (DOMAIN owned = {})
           /\ reply.kind = "inventory"
              => LET lines == reply.lines
                 IN  /\ Len(lines) <= 20
                     /\ Len(lines) = 20 \/ Len(lines) = Cardinality(DOMAIN owned)
                     /\ \A k \in DOMAIN lines :
                           /\ lines[k].i = k
                           /\ \E w \in DOMAIN owned :
                                 /\ owned[w].name = lines[k].name
                                 /\ owned[w].rarity = lines[k].rarity
                                 /\ owned[w].count = lines[k].count
                     /\ \A k \in DOMAIN lines, l \in DOMAIN lines :
                           k < l
                           => /\ lines[k].name # lines[l].name
                              /\ \/ lines[k].count > lines[l].count
                                 \/ /\ lines[k].count = lines[l].count
                                    /\ LabelPlace(lines[k].rarity)
                                          <= LabelPlace(lines[l].rarity)

\* 20 lines cut from more than 20 entries, some ordered by count and some
\* of equal count ordered by rarity
InventoryWitness ==
    /\ cmd.op = "inventory"
    /\ reply.kind = "inventory"
    /\ Len(reply.lines) = 20
    /\ Cardinality(DOMAIN Entries(users, cmd.user)) > 20
    /\ reply.lines[1].count > reply.lines[20].count
    /\ \E k \in 1..19 :
          /\ reply.lines[k].count = reply.lines[k + 1].count
          /\ reply.lines[k].rarity # reply.lines[k + 1].rarity

\* the empty reply for a user whose document has no collection yet
InventoryEmptyWitness ==
    /\ cmd.op = "inventory"
    /\ reply.kind = "empty"
    /\ DocsOf(users, cmd.user) # {}

(***************************************************************************)
(* C12: the total a profile shows is the sum of the counts of the user's   *)
(* entries, which is the number of the user's successful claims, and the   *)
(* per-rarity totals of the profile add up to it.                          *)
(***************************************************************************)
\* the total of rarity r in the reply, 0 when the reply has no line for it
Shown(r) ==
    IF r \in DOMAIN reply.rarity_counts THEN reply.rarity_counts[r] ELSE 0

ProfileTotalsClaims ==
    cmd.op = "profile"
    => /\ reply.total = Count(users, cmd.user, "w1") + Count(users, cmd.user, "w2")
       /\ reply.total = hist[cmd.user].claims
       /\ DOMAIN reply.rarity_counts \subseteq {"Legendary", "Epic", "Rare", "Common"}
       /\ reply.total = Shown("Legendary") + Shown("Epic")
                        + Shown("Rare") + Shown("Common")
       /\ \A r \in DOMAIN reply.rarity_counts : reply.rarity_counts[r] > 0

\* the profile of a user who claimed twice, entries of two rarities
ProfileWitness ==
    /\ cmd.op = "profile"
    /\ reply.total = 2
    /\ hist[cmd.user].claims = 2
    /\ Cardinality(DOMAIN reply.rarity_counts) = 2

(***************************************************************************)
(* C14: in every execution, also where catch and claim handlers of a user  *)
(* interleave between their store operations, the stored count of a        *)
(* collection entry never decreases from one state to the next, and an     *)
(* entry once present never disappears (an absent entry counts 0).         *)
(***************************************************************************)
CountNeverDecreases ==
    [][\A u \in USERS, w \in WIDS :
          Count(users', u, w) >= Count(users, u, w)]_vars

(***************************************************************************)
(* C15: each PendingRoll is credited at most once, also when two claim     *)
(* handlers of a user interleave: the successful claim replies of a user   *)
(* never outnumber the PendingRolls the user's catches wrote, and neither  *)
(* does the user's total owned count.                                      *)
(***************************************************************************)
RECURSIVE OwnedOver(_, _, _)
OwnedOver(coll, u, ws) ==
    IF ws = {} THEN 0
    ELSE LET w == CHOOSE w \in ws : TRUE
         IN  Count(coll, u, w) + OwnedOver(coll, u, ws \ {w})

RollCreditedAtMostOnce ==
    \A u \in USERS :
       /\ hist[u].claims <= hist[u].rolled
       /\ OwnedOver(users, u, WIDS) <= hist[u].rolled

(***************************************************************************)
(* C16: the PendingRoll a claim deletes is the one it credited: over the   *)
(* interleavings of a claim with a catch of the same user, the step of a   *)
(* claim that removes the user's pending document removes no document      *)
(* other than the PendingRoll this handler read and added to the           *)
(* collection.                                                             *)
(***************************************************************************)
ClaimDeletesCreditedRoll ==
    [][\A u \in USERS :
          (cmd'.op = "claim" /\ cmd'.user = u /\ cmd'.at = "delete")
          => DocsOf(pending, u) \ DocsOf(pending', u)
                \subseteq {tasks[cmd'.slot].pend}]_vars

(***************************************************************************)
(* C17: two successful rolls of a user are at least COOLDOWN_SECONDS       *)
(* apart, also when two catch handlers of the user interleave: a catch     *)
(* that writes a PendingRoll writes a timestamp at least COOLDOWN_SECONDS  *)
(* away from the timestamp of the user's PendingRoll written before it.    *)
(***************************************************************************)
Abs(x) == IF x < 0 THEN 0 - x ELSE x

RollsCooldownApart ==
    [][\A u \in USERS :
          (cmd'.op = "catch" /\ cmd'.user = u /\ cmd'.at = "save_pending"
             /\ hist[u].rolled > 0)
          => \A d \in DocsOf(pending', u) :
                Abs(d.ts - hist[u].at) >= COOLDOWN_SECONDS]_vars

(***************************************************************************)
(* C19: whenever no handler of a user is in progress and the user has a    *)
(* PendingRoll, the user has a UserRecord whose last_roll_at equals the    *)
(* timestamp of the PendingRoll, also after handlers of the user           *)
(* interleaved.                                                            *)
(***************************************************************************)
Quiet(u) == \A s \in SLOTS : tasks[s].pc = "idle" \/ tasks[s].user # u

PendingRollMatchesLastRoll ==
    \A u \in USERS :
       (Quiet(u) /\ Idx(pending, u) # {})
       => /\ Idx(users, u) # {}
          /\ \A d \in DocsOf(pending, u) : d.ts = LastRollAt(users, u)

(***************************************************************************)
(* C20: a claim is all-or-nothing when a store operation fails and the     *)
(* handler aborts: where a claim handler ends on a failure, either the     *)
(* roll it read is credited (its count is one more than when the handler   *)
(* started) and the PendingRoll is deleted, or the collection is as it was *)
(* when the handler started and the PendingRoll still exists; and the      *)
(* user's total owned count never exceeds the number of PendingRolls       *)
(* written, so that a retried claim does not credit a roll twice.          *)
(***************************************************************************)
ClaimAllOrNothing ==
    [][\A u \in USERS :
          /\ (cmd'.op = "claim" /\ cmd'.user = u /\ cmd'.at = "abort")
             => LET t == tasks[cmd'.slot]
                    wid == t.pend.waifu_id
                    was == IF wid \in DOMAIN t.before
                           THEN t.before[wid].count ELSE 0
                IN  \/ /\ Entries(users', u) = t.before
                       /\ Idx(pending', u) # {}
                    \/ /\ Count(users', u, wid) = was + 1
                       /\ Idx(pending', u) = {}
          /\ OwnedOver(users', u, WIDS) <= hist'[u].rolled]_vars

====
